---- MODULE Spec2Model ----
(***************************************************************************)
(* Model of the crawl controller of doc-scraper (class DocCrawler and the  *)
(* main entry point).  One JavaScript event loop: an action is one         *)
(* run-to-completion step, from the event that resumes the code up to the  *)
(* next await that really suspends it.  The page source (fetch), the       *)
(* signal source and the file system are the environment.                  *)
(***************************************************************************)
EXTENDS Integers, Sequences, FiniteSets, TLC

(***************************************************************************)
(* Bounds of the model and constants of the program.                       *)
(***************************************************************************)
\* largest value of options.maxConcurrent that is tried
MaxConcurrentBound == 2
\* number of shutdown signals (SIGINT, SIGTERM) delivered to the process
MaxSignals == 2
\* `this.options.maxConcurrent || 5`
DefaultMaxConcurrent == 5

\* an optional value: <<>> is undefined, <<x>> is x
None == <<>>
Some(x) == <<x>>

(***************************************************************************)
(* The documentation site: the index page and three pages.  A page, when   *)
(* the fetch succeeds, has the links extractLinks returns (deduplicated,   *)
(* in document order) and the ids of the entries extractEntries returns.   *)
(* An id is its sequence of dot-delimited segments: "m.C" is <<"m","C">>.  *)
(***************************************************************************)
IndexUrl == "idx"
Pages == {"a", "b", "c"}
Urls == Pages \cup {IndexUrl}

NoLinks == [u \in Urls |-> <<>>]
PageIds == [u \in Urls |->
              CASE u = "a" -> << <<"m">>, <<"q", "r">> >>
                [] u = "b" -> << <<"m", "C">>, <<"x">> >>
                [] u = "c" -> << <<"m", "C", "f">>, <<"m", "D">>, <<"x">> >>
                [] OTHER   -> <<>>]

\* a cycle through all pages, with a link back to the index page
SiteCycle == [links |-> [NoLinks EXCEPT !["idx"] = <<"a", "b">>,
                                         !["a"] = <<"b", "idx">>,
                                         !["b"] = <<"c">>,
                                         !["c"] = <<"a">>],
              ids |-> PageIds]
\* two pages of one batch link to the same unvisited page
SiteDiamond == [links |-> [NoLinks EXCEPT !["idx"] = <<"a", "b">>,
                                           !["a"] = <<"c">>,
                                           !["b"] = <<"c", "a">>],
                ids |-> PageIds]
\* every page is linked from the index page
SiteFlat == [links |-> [NoLinks EXCEPT !["idx"] = <<"a", "b", "c">>,
                                        !["c"] = <<"idx">>],
             ids |-> PageIds]
\* the index page links to nothing
SiteEmpty == [links |-> NoLinks, ids |-> PageIds]
Sites == {SiteCycle, SiteDiamond, SiteFlat, SiteEmpty}

(***************************************************************************)
(* The options main() or a caller may pass to the constructor.             *)
(***************************************************************************)
OptionSets ==
  [maxConcurrent : {None} \cup {Some(n) : n \in 1..MaxConcurrentBound},
   maxDepth      : {None, Some(-1), Some(0), Some(5)},
   delay         : {None, Some(1000)},
   resumeFrom    : {None, Some("checkpoint.json")}]

(***************************************************************************)
(* Files.  A file is absent, or holds a text; a text is either the JSON    *)
(* serialisation of a checkpoint or something JSON.parse rejects.          *)
(***************************************************************************)
Absent == [kind |-> "absent"]
Malformed == [kind |-> "text", json |-> FALSE, by |-> "user",
              visited |-> {}, queue |-> <<>>, entries |-> <<>>]
\* JSON.stringify(checkpoint, null, 2) of saveCheckpoint; `by` names the caller
CheckpointText(by, v, q, e) ==
  [kind |-> "text", json |-> TRUE, by |-> by,
   visited |-> v, queue |-> q, entries |-> e]

Entry(id, url) == [id |-> id, url |-> url, parent |-> None, children |-> <<>>]
\* a checkpoint an earlier, interrupted crawl left behind
OldCheckpoint ==
  CheckpointText("exit", {"a"}, <<"b">>, << Entry(<<"m">>, "a") >>)
InitialFiles == {Absent, Malformed, OldCheckpoint}

VARIABLES
  site,        \* the site crawled
  options,     \* the options record of the constructor
  pc,          \* where main() / crawlAll() is suspended
  visited,     \* this.visited
  queue,       \* this.queue
  entries,     \* this.entries
  isExiting,   \* this.isExiting
  tasks,       \* the processPage calls of the current batch, in batch order
  writes,      \* Bun.write calls on the checkpoint file not yet completed
  disk,        \* the checkpoint file (checkpointFile and resumeFrom)
  output,      \* the entries crawlAll returned to main, None before
  signals,     \* number of shutdown signals delivered
  dequeued,    \* history: the URLs removed from the queue so far
  fetchCount,  \* history: fetches started by the main loop, per URL
  failed,      \* history: the URLs the page source reported unavailable
  call,        \* the input of a call of the extraction engine checked alone
  result,      \* what that call returned, None before
  recalls      \* how often crawlAll was called again on the same crawler

vars == <<recalls, call, result, site, options, pc, visited, queue, entries, isExiting, tasks,
          writes, disk, output, signals, dequeued, fetchCount, failed>>

(***************************************************************************)
(* Helpers.                                                                *)
(***************************************************************************)
Range(s) == {s[i] : i \in DOMAIN s}
Occurrences(s, x) == Cardinality({i \in DOMAIN s : s[i] = x})

\* the filter against visited left out
KeepAllLinks(s, vis) == s

\* only the first new link kept
KeepFirstNewLink(s, vis) ==
  IF \E i \in DOMAIN s : s[i] \notin vis
  THEN <<s[CHOOSE i \in DOMAIN s : s[i] \notin vis /\ \A j \in 1..(i - 1) : s[j] \in vis]>>
  ELSE <<>>

RECURSIVE FilterSeq(_, _)
\* links.filter(link => !this.visited.has(link))
FilterSeq(s, vis) ==
  IF s = <<>> THEN <<>>
  ELSE IF Head(s) \in vis THEN FilterSeq(Tail(s), vis)
       ELSE <<Head(s)>> \o FilterSeq(Tail(s), vis)

\* extractLinks($, url) of a page that was fetched
ExtractLinks(url) == site.links[url]

\* extractEntries($, url) of a page that was fetched
ExtractEntries(url) ==
  [i \in DOMAIN site.ids[url] |-> Entry(site.ids[url][i], url)]

\* an off-by-one in the splice count
BatchLimitOneMore ==
  (IF options.maxConcurrent = None THEN DefaultMaxConcurrent
   ELSE options.maxConcurrent[1]) + 1

\* this.options.maxConcurrent || 5
BatchLimit ==
  IF options.maxConcurrent = None \/ options.maxConcurrent = Some(0)
  THEN DefaultMaxConcurrent
  ELSE options.maxConcurrent[1]

\* this.queue.splice(0, n): the elements removed
SpliceTaken(q, n) == SubSeq(q, 1, IF Len(q) < n THEN Len(q) ELSE n)
\* slice in place of splice: nothing is removed
SliceLeavesQueue(q, n) == q

\* this.queue.splice(0, n): the queue that is left
SpliceLeft(q, n) == SubSeq(q, (IF Len(q) < n THEN Len(q) ELSE n) + 1, Len(q))

(***************************************************************************)
(* Checkpoint files.                                                       *)
(***************************************************************************)
\* existsSync(checkpointFile)
ExistsSync(file) == file.kind # "absent"

\* Bun.file(checkpointFile).toString(): Bun.file returns a lazy BunFile (a
\* Blob); its contents are read with the asynchronous text() or json(), as
\* loadConfig does.  toString() is Object.prototype.toString, the string
\* "[object Blob]", whatever the file holds.
BunFileToString(file) ==
  [kind |-> "text", json |-> FALSE, by |-> "[object Blob]",
   visited |-> {}, queue |-> <<>>, entries |-> <<>>]

\* JSON.parse(text): a value, or a SyntaxError
JSONParse(text) == [threw |-> ~text.json, value |-> text]

\* a catch block that logs the error and does not rethrow it
RestoreCheckpointSwallow(file, v, q, e) ==
  [threw |-> FALSE, visited |-> v, queue |-> q, entries |-> e]

\* restoreCheckpoint(checkpointFile): what it leaves in the three fields, and
\* whether it throws (the catch block logs and rethrows)
RestoreCheckpoint(file, v, q, e) ==
  IF ~ExistsSync(file)
  THEN [threw |-> FALSE, visited |-> v, queue |-> q, entries |-> e]
  ELSE LET checkpoint == JSONParse(BunFileToString(file)) IN
       IF checkpoint.threw
       THEN [threw |-> TRUE, visited |-> v, queue |-> q, entries |-> e]
       ELSE [threw |-> FALSE,
             visited |-> checkpoint.value.visited,
             queue |-> checkpoint.value.queue,
             entries |-> checkpoint.value.entries]

\* saveCheckpoint(): the text handed to Bun.write, serialised synchronously
\* from the state at the time of the call
SaveCheckpoint(by, v, q, e) == [by |-> by, text |-> CheckpointText(by, v, q, e)]

(***************************************************************************)
(* processPage up to its first await, and the batch of crawlAll.           *)
(***************************************************************************)
\* the depth test made with >= in place of >
SkipsPageAtLimit(url, depth, vis) ==
  \/ url \in vis
  \/ options.maxDepth # None /\ depth >= options.maxDepth[1]

\* the two early returns of processPage(url, depth)
SkipsPage(url, depth, vis) ==
  \/ url \in vis
  \/ options.maxDepth # None /\ depth > options.maxDepth[1]

\* the add left out
NotMarked(url, vis) == vis

\* this.visited.add(url)
MarkVisited(url, vis) == vis \cup {url}

RECURSIVE StartBatch(_, _, _, _)
\* batch.map(url => this.processPage(url, 0)): each call runs synchronously
\* up to `await fetch(url)`, in batch order
StartBatch(batch, vis, acc, cnt) ==
  IF batch = <<>> THEN [visited |-> vis, tasks |-> acc, fetchCount |-> cnt]
  ELSE LET url == Head(batch) IN
       IF SkipsPage(url, 0, vis)
       THEN StartBatch(Tail(batch), vis,
                       Append(acc, [url |-> url, st |-> "skipped"]), cnt)
       ELSE StartBatch(Tail(batch), MarkVisited(url, vis),
                       Append(acc, [url |-> url, st |-> "fetching"]),
                       [cnt EXCEPT ![url] = IF @ < 2 THEN @ + 1 ELSE @])

InFlight == {i \in DOMAIN tasks : tasks[i].st = "fetching"}

\* Promise.race / Promise.any in place of Promise.all
PromiseAnyResolved(ts) ==
  ts = <<>> \/ \E i \in DOMAIN ts : ts[i].st \in {"skipped", "ok", "null"}

\* await Promise.all(...): resolved once every processPage has resolved
PromiseAllResolved(ts) == \A i \in DOMAIN ts : ts[i].st \in {"skipped", "ok", "null"}

\* the index page treated like every other page
FailureNeverThrows(url) == FALSE
\* every failed fetch rethrown
FailureAlwaysThrows(url) == TRUE

\* fetchAndLoad: a failed fetch is rethrown for the index page and swallowed
\* (null) for every other URL
FetchFailureThrows(url) == url = IndexUrl

(***************************************************************************)
(* establishHierarchy.                                                     *)
(***************************************************************************)
\* the first segment alone
ParentIdTopLevel(id) == SubSeq(id, 1, 1)

\* parts.slice(0, -1)
ParentId(id) == SubSeq(id, 1, Len(id) - 1)

\* this.entries.find(e => e.id === parentId): its index, 0 when there is none
FindEntry(es, id) ==
  IF \E i \in DOMAIN es : es[i].id = id
  THEN CHOOSE i \in DOMAIN es : es[i].id = id /\ \A j \in 1..(i-1) : es[j].id # id
  ELSE 0

\* the parent looked for among the entries before index i only
LinkEntryToEarlier(es, i) ==
  IF Len(es[i].id) > 1 /\ FindEntry(SubSeq(es, 1, i - 1), ParentId(es[i].id)) # 0
  THEN LET p == FindEntry(es, ParentId(es[i].id))
           withParent == [es EXCEPT ![i].parent = Some(ParentId(es[i].id))]
       IN [withParent EXCEPT ![p].children = Append(@, es[i].id)]
  ELSE es

\* the body of the forEach for the entry at index i
LinkEntry(es, i) ==
  IF Len(es[i].id) > 1 /\ FindEntry(es, ParentId(es[i].id)) # 0
  THEN LET p == FindEntry(es, ParentId(es[i].id))
           withParent == [es EXCEPT ![i].parent = Some(ParentId(es[i].id))]
       IN [withParent EXCEPT ![p].children = Append(@, es[i].id)]
  ELSE es

RECURSIVE LinkFrom(_, _)
LinkFrom(es, i) == IF i > Len(es) THEN es ELSE LinkFrom(LinkEntry(es, i), i + 1)

\* the pass made twice
EstablishHierarchyTwice(es) == LinkFrom(LinkFrom(es, 1), 1)

\* establishHierarchy(): the forEach over this.entries
EstablishHierarchy(es) == LinkFrom(es, 1)

(***************************************************************************)
(* The extraction engine: determineType and the rich-descriptor branch of  *)
(* extractParameters, as functions of what the selectors and patterns of   *)
(* the config match on the element.                                        *)
(***************************************************************************)
PatternNames == {"isClass", "isMethod", "isFunction", "isModule", "isProperty"}

\* isMethod tested before isClass
DetermineTypeMethodFirst(matching) ==
  IF "isMethod" \in matching THEN Some("method")
  ELSE IF "isClass" \in matching THEN Some("class")
  ELSE IF "isFunction" \in matching THEN Some("function")
  ELSE IF "isModule" \in matching THEN Some("module")
  ELSE IF "isProperty" \in matching THEN Some("property")
  ELSE None

\* determineType($el): `matching` are the patterns whose test(text) is true;
\* None is null
DetermineType(matching) ==
  IF "isClass" \in matching THEN Some("class")
  ELSE IF "isMethod" \in matching THEN Some("method")
  ELSE IF "isFunction" \in matching THEN Some("function")
  ELSE IF "isModule" \in matching THEN Some("module")
  ELSE IF "isProperty" \in matching THEN Some("property")
  ELSE None

\* the head of extractEntry: `if (!type) return null`; otherwise an entry of
\* that type
ExtractEntryType(matching) ==
  IF DetermineType(matching) = None THEN [entry |-> FALSE, type |-> None]
  ELSE [entry |-> TRUE, type |-> DetermineType(matching)]

\* $default.text().trim() || undefined, when defaultSelector is configured
DefaultText(c) ==
  IF c.defaultSelector /\ c.defaultMatches /\ c.defaultText # ""
  THEN Some(c.defaultText) ELSE None

\* match?.[1] || defaultValue, when there is a value and a defaultPattern
DefaultValue(c) ==
  IF DefaultText(c) # None /\ c.defaultPattern \notin {"unset", "nomatch", "empty"}
  THEN Some(c.defaultPattern) ELSE DefaultText(c)

\* `optional = test(name)` in place of `optional = optional || test(name)`
OptionalOverwritten(c) ==
  IF c.optionalPattern # "unset" THEN c.optionalPattern = "match"
  ELSE DefaultValue(c) # None

\* Boolean(defaultValue), or-ed with optionalPattern.test(name)
Optional(c) ==
  IF c.optionalPattern # "unset"
  THEN DefaultValue(c) # None \/ c.optionalPattern = "match"
  ELSE DefaultValue(c) # None

\* the parameter the rich branch pushes, None when the cleaned name is empty
ExtractParameter(c) ==
  IF c.name = "" THEN None
  ELSE Some([name |-> c.name, optional |-> Optional(c),
             default |-> DefaultValue(c)])

(***************************************************************************)
(* The state after main() has loaded the config, before `new DocCrawler`.  *)
(* The checkpoint file is looked at only when resumeFrom is given.         *)
(***************************************************************************)
\* no call of the extraction engine is looked at
NoCall == [kind |-> "none"]

Init ==
  /\ site \in Sites
  /\ options \in OptionSets
  /\ disk \in (IF options.resumeFrom = None THEN {Absent} ELSE InitialFiles)
  /\ pc = "new"
  /\ visited = {}
  /\ queue = <<>>
  /\ entries = <<>>
  /\ isExiting = FALSE
  /\ tasks = <<>>
  /\ writes = <<>>
  /\ output = None
  /\ signals = 0
  /\ dequeued = {}
  /\ fetchCount = [u \in Urls |-> 0]
  /\ failed = {}
  /\ call = NoCall
  /\ result = None
  /\ recalls = 0

\* the state of the crawl controller
crawlVars == <<recalls, site, options, pc, visited, queue, entries, isExiting, tasks,
               writes, disk, output, signals, dequeued, fetchCount, failed>>

\* the event loop is idle: crawlAll is suspended in an await that has not
\* resolved, so that a signal, a fetch or a write may complete
Suspended ==
  \/ pc \in {"seeding", "ckptWrite", "delay", "finalWrite", "returned"}
  \/ pc = "batchWait" /\ ~PromiseAllResolved(tasks)
  \/ pc = "done" /\ writes # <<>>

\* where crawlAll goes after the checkpoint test of an iteration
AfterCheckpoint ==
  IF options.delay # None /\ options.delay # Some(0) THEN "delay" ELSE "loopTop"

RemoveAt(s, k) == SubSeq(s, 1, k - 1) \o SubSeq(s, k + 1, Len(s))

\* new DocCrawler(source, options): the constructor; when restoreCheckpoint
\* throws, main() rejects and the process ends
Construct ==
  /\ pc = "new"
  /\ IF options.resumeFrom = None
     THEN pc' = "ready" /\ UNCHANGED <<visited, queue, entries>>
     ELSE LET r == RestoreCheckpoint(disk, visited, queue, entries) IN
          /\ pc' = IF r.threw THEN "ctorThrew" ELSE "ready"
          /\ visited' = r.visited
          /\ queue' = r.queue
          /\ entries' = r.entries
  /\ UNCHANGED <<recalls, call, result, site, options, isExiting, tasks, writes, disk, output,
                 signals, dequeued, fetchCount, failed>>

\* crawlAll() up to the first await: the index fetch of queueInitialPages
\* when the queue is empty, else straight to the loop
CrawlAllStart ==
  /\ pc = "ready"
  /\ pc' = IF Len(queue) = 0 THEN "seeding" ELSE "loopTop"
  /\ UNCHANGED <<recalls, call, result, site, options, visited, queue, entries, isExiting, tasks,
                 writes, disk, output, signals, dequeued, fetchCount, failed>>

\* queueInitialPages: the index page arrived; this.queue.push(...links)
SeedFetched ==
  /\ pc = "seeding"
  /\ queue' = queue \o ExtractLinks(IndexUrl)
  /\ pc' = "loopTop"
  /\ UNCHANGED <<recalls, call, result, site, options, visited, entries, isExiting, tasks, writes,
                 disk, output, signals, dequeued, fetchCount, failed>>

\* queueInitialPages: the index fetch failed; fetchAndLoad throws, crawlAll
\* rejects, main() catches and calls process.exit(1)
SeedFailed ==
  /\ pc = "seeding"
  /\ IF FetchFailureThrows(IndexUrl)
     THEN pc' = "failed"
     ELSE pc' = "loopTop"    \* `if ($ === null) return;`, then the loop
  /\ UNCHANGED <<recalls, call, result, site, options, visited, queue, entries, isExiting, tasks,
                 writes, disk, output, signals, dequeued, fetchCount, failed>>

\* one iteration of the while loop up to `await Promise.all`: splice the
\* batch off the queue and start processPage for each of its URLs
Dispatch ==
  /\ pc = "loopTop"
  /\ Len(queue) > 0 /\ ~isExiting
  /\ LET batch == SpliceTaken(queue, BatchLimit)
         started == StartBatch(batch, visited, <<>>, fetchCount) IN
     /\ queue' = SpliceLeft(queue, BatchLimit)
     /\ visited' = started.visited
     /\ tasks' = started.tasks
     /\ fetchCount' = started.fetchCount
     /\ dequeued' = dequeued \cup Range(batch)
  /\ pc' = "batchWait"
  /\ UNCHANGED <<recalls, call, result, site, options, entries, isExiting, writes, disk, output,
                 signals, failed>>

\* processPage after `await this.fetchAndLoad(url)` returned a page
TaskFetched(i) ==
  /\ pc = "batchWait"
  /\ i \in InFlight
  /\ entries' = entries \o ExtractEntries(tasks[i].url)
  /\ queue' = queue \o FilterSeq(ExtractLinks(tasks[i].url), visited)
  /\ tasks' = [tasks EXCEPT ![i].st = "ok"]
  /\ UNCHANGED <<recalls, call, result, site, options, pc, visited, isExiting, writes, disk, output,
                 signals, dequeued, fetchCount, failed>>

\* processPage after the fetch failed (network error or response not ok):
\* fetchAndLoad returns null, or throws for the index page; a throw rejects
\* Promise.all and crawlAll, and main() calls process.exit(1)
TaskFailed(i) ==
  /\ pc = "batchWait"
  /\ i \in InFlight
  /\ IF FetchFailureThrows(tasks[i].url)
     THEN /\ tasks' = [tasks EXCEPT ![i].st = "rejected"]
          /\ pc' = "failed"
     ELSE /\ tasks' = [tasks EXCEPT ![i].st = "null"]
          /\ pc' = pc
  /\ failed' = failed \cup {tasks[i].url}
  /\ UNCHANGED <<recalls, call, result, site, options, visited, queue, entries, isExiting, writes,
                 disk, output, signals, dequeued, fetchCount>>

\* `await Promise.all(...)` resolves
BatchJoined ==
  /\ pc = "batchWait"
  /\ PromiseAllResolved(tasks)
  /\ pc' = "joined"
  /\ UNCHANGED <<recalls, call, result, site, options, visited, queue, entries, isExiting, tasks,
                 writes, disk, output, signals, dequeued, fetchCount, failed>>

\* Date.now() - lastCheckpoint > this.checkpointInterval: saveCheckpoint()
PeriodicCheckpoint ==
  /\ pc = "joined"
  /\ writes' = Append(writes, SaveCheckpoint("periodic", visited, queue, entries))
  /\ pc' = "ckptWrite"
  /\ UNCHANGED <<recalls, call, result, site, options, visited, queue, entries, isExiting, tasks,
                 disk, output, signals, dequeued, fetchCount, failed>>

\* the checkpoint interval has not elapsed
NoCheckpoint ==
  /\ pc = "joined"
  /\ pc' = AfterCheckpoint
  /\ UNCHANGED <<recalls, call, result, site, options, visited, queue, entries, isExiting, tasks,
                 writes, disk, output, signals, dequeued, fetchCount, failed>>

\* the Bun.write of the periodic checkpoint completed
PeriodicWritten(k) ==
  /\ pc = "ckptWrite"
  /\ k \in DOMAIN writes /\ writes[k].by = "periodic"
  /\ disk' = writes[k].text
  /\ writes' = RemoveAt(writes, k)
  /\ pc' = AfterCheckpoint
  /\ UNCHANGED <<recalls, call, result, site, options, visited, queue, entries, isExiting, tasks,
                 output, signals, dequeued, fetchCount, failed>>

\* the timer of options.delay fired
DelayElapsed ==
  /\ pc = "delay"
  /\ pc' = "loopTop"
  /\ UNCHANGED <<recalls, call, result, site, options, visited, queue, entries, isExiting, tasks,
                 writes, disk, output, signals, dequeued, fetchCount, failed>>

\* the loop ended with isExiting set: return this.entries
ReturnInterrupted ==
  /\ pc = "loopTop"
  /\ ~(Len(queue) > 0 /\ ~isExiting)
  /\ isExiting
  /\ output' = Some(entries)
  /\ pc' = "returned"
  /\ UNCHANGED <<recalls, call, result, site, options, visited, queue, entries, isExiting, tasks,
                 writes, disk, signals, dequeued, fetchCount, failed>>

\* the loop ended with the queue drained: establishHierarchy(), then the
\* final saveCheckpoint()
Finish ==
  /\ pc = "loopTop"
  /\ ~(Len(queue) > 0 /\ ~isExiting)
  /\ ~isExiting
  /\ entries' = EstablishHierarchy(entries)
  /\ writes' = Append(writes, SaveCheckpoint("final", visited, queue, entries'))
  /\ pc' = "finalWrite"
  /\ UNCHANGED <<recalls, call, result, site, options, visited, queue, isExiting, tasks, disk,
                 output, signals, dequeued, fetchCount, failed>>

\* the Bun.write of the final checkpoint completed: return this.entries
FinalWritten(k) ==
  /\ pc = "finalWrite"
  /\ k \in DOMAIN writes /\ writes[k].by = "final"
  /\ disk' = writes[k].text
  /\ writes' = RemoveAt(writes, k)
  /\ output' = Some(entries)
  /\ pc' = "returned"
  /\ UNCHANGED <<recalls, call, result, site, options, visited, queue, entries, isExiting, tasks,
                 signals, dequeued, fetchCount, failed>>

\* main(): Bun.write(outputFile, ...) completed and main() returns
MainDone ==
  /\ pc = "returned"
  /\ pc' = "done"
  /\ UNCHANGED <<recalls, call, result, site, options, visited, queue, entries, isExiting, tasks,
                 writes, disk, output, signals, dequeued, fetchCount, failed>>

\* SIGINT or SIGTERM: handleExit up to `await this.saveCheckpoint()`
Signal ==
  /\ Suspended
  /\ signals < MaxSignals
  /\ signals' = signals + 1
  /\ isExiting' = TRUE
  /\ writes' = Append(writes, SaveCheckpoint("exit", visited, queue, entries))
  /\ UNCHANGED <<recalls, call, result, site, options, pc, visited, queue, entries, tasks, disk,
                 output, dequeued, fetchCount, failed>>

\* handleExit after its Bun.write completed: process.exit(0)
ExitWritten(k) ==
  /\ Suspended
  /\ k \in DOMAIN writes /\ writes[k].by = "exit"
  /\ disk' = writes[k].text
  /\ writes' = RemoveAt(writes, k)
  /\ pc' = "exited"
  /\ UNCHANGED <<recalls, call, result, site, options, visited, queue, entries, isExiting, tasks,
                 output, signals, dequeued, fetchCount, failed>>

Next ==
  \/ Construct
  \/ CrawlAllStart
  \/ SeedFetched
  \/ SeedFailed
  \/ Dispatch
  \/ \E i \in DOMAIN tasks : TaskFetched(i)
  \/ \E i \in DOMAIN tasks : TaskFailed(i)
  \/ BatchJoined
  \/ PeriodicCheckpoint
  \/ NoCheckpoint
  \/ \E k \in DOMAIN writes : PeriodicWritten(k)
  \/ DelayElapsed
  \/ ReturnInterrupted
  \/ Finish
  \/ \E k \in DOMAIN writes : FinalWritten(k)
  \/ MainDone
  \/ Signal
  \/ \E k \in DOMAIN writes : ExitWritten(k)

Spec == Init /\ [][Next]_vars

(***************************************************************************)
(* Properties.                                                             *)
(***************************************************************************)
\* page fetches in flight: the index fetch of the seeding and the fetches
\* of the current batch
FetchesInFlight == Cardinality(InFlight) + (IF pc = "seeding" THEN 1 ELSE 0)

\* the bound on concurrency the options ask for (5 when none is given)
ConfiguredConcurrency ==
  IF options.maxConcurrent = None THEN DefaultMaxConcurrent
  ELSE options.maxConcurrent[1]

TaskUrls(ts) == [i \in DOMAIN ts |-> ts[i].url]

\* C1: at every point of a crawl at most maxConcurrent page fetches are in
\* flight; a loop iteration removes at most maxConcurrent URLs from the head
\* of the queue, in queue order, and starts fetches only for URLs it removed.
C1_BoundedConcurrency ==
  [][/\ FetchesInFlight' <= ConfiguredConcurrency
     /\ Len(queue') < Len(queue) =>
          /\ Len(tasks') <= ConfiguredConcurrency
          /\ queue = TaskUrls(tasks') \o queue'
     /\ \A u \in Urls : fetchCount'[u] > fetchCount[u] =>
          /\ Len(queue') < Len(queue)
          /\ u \in Range(TaskUrls(tasks'))]_vars

\* a full batch is in flight while more URLs wait in the queue
C1_Witness ==
  /\ options.maxConcurrent = Some(2)
  /\ Cardinality(InFlight) = 2
  /\ Len(queue) > 0

\* C2: the batch boundary is a barrier: whenever URLs are removed from the
\* queue or a fetch is started, every processPage of the previous batch has
\* resolved (fetched, failed recoverably, or skipped).
C2_BatchBarrier ==
  [][(Len(queue') < Len(queue) \/ fetchCount' # fetchCount) =>
       \A i \in DOMAIN tasks : tasks[i].st \in {"skipped", "ok", "null"}]_vars

\* a second batch is in flight, dispatched after a batch of two
C2_Witness ==
  /\ pc = "batchWait"
  /\ InFlight # {}
  /\ Cardinality(dequeued) >= 3
  /\ options.maxConcurrent = Some(2)

\* entries as a set, by id and page (parent and children left out)
EntryKeys(es) == {<<es[i].id, es[i].url>> : i \in DOMAIN es}

\* the entries and the links of the page of task i are in checkpoint file f
HasResultsOf(f, i) ==
  /\ EntryKeys(ExtractEntries(tasks[i].url)) \subseteq EntryKeys(f.entries)
  /\ Range(ExtractLinks(tasks[i].url)) \subseteq f.visited \cup Range(f.queue)

\* C3 (as claimed): when the process has terminated on a shutdown signal,
\* no processPage of the batch was cut off in flight, and the shutdown
\* checkpoint holds the entries and links of every fetched URL of the batch
\* that it records as visited.
C3_InFlightFinishBeforeShutdown ==
  pc = "exited" =>
    /\ InFlight = {}
    /\ \A i \in DOMAIN tasks :
         (tasks[i].st = "ok" /\ tasks[i].url \in disk.visited)
           => HasResultsOf(disk, i)

RECURSIVE Crawled(_, _)
\* the visited set a crawl ends with that starts with the URLs `frontier`
\* queued and `seen` visited, on this site with the pages in `failed`
\* unavailable
Crawled(frontier, seen) ==
  LET new == frontier \ seen IN
  IF new = {} THEN seen
  ELSE Crawled(UNION {Range(ExtractLinks(u)) : u \in new \ failed}, seen \cup new)

\* the entries of a set of fetched pages, as a set
EntriesOfPages(ps) == UNION {EntryKeys(ExtractEntries(u)) : u \in ps \ failed}

\* C4 (as claimed): a crawl resumed from the shutdown checkpoint ends with
\* the visited pages and the entries of an uninterrupted crawl of the site.
C4_ResumeWithoutLoss ==
  pc = "exited" =>
    LET \* crawlAll seeds from the index page when the restored queue is empty
        frontier == IF Len(disk.queue) = 0 THEN Range(ExtractLinks(IndexUrl))
                    ELSE Range(disk.queue)
        resumed == Crawled(frontier, disk.visited)
        whole == Crawled(Range(ExtractLinks(IndexUrl)), {})
    IN /\ resumed = whole
       /\ EntryKeys(disk.entries) \cup EntriesOfPages(resumed \ disk.visited)
            = EntriesOfPages(whole)

\* the constructor has returned or thrown, and crawlAll has not started
Constructed == pc \in {"ready", "ctorThrew"}
WellFormed(f) == f.kind = "text" /\ f.json

\* C5 (as claimed): constructing with resumeFrom naming a well-formed
\* checkpoint succeeds and replaces visited, queue and entries by the
\* checkpoint's values.
C5_RestoreReplacesState ==
  (Constructed /\ options.resumeFrom # None /\ WellFormed(disk)) =>
    /\ pc = "ready"
    /\ visited = disk.visited
    /\ queue = disk.queue
    /\ entries = disk.entries

C7_CheckpointNotConcurrent ==
  writes # <<>> => (InFlight = {} /\ Len(writes) = 1)

\* C8: a URL that was removed from the queue is never appended to it again,
\* and the main loop starts at most one fetch per URL.
C8_NeverRequeued ==
  [][/\ \A u \in dequeued : Occurrences(queue', u) <= Occurrences(queue, u)
     /\ \A u \in Urls : fetchCount'[u] <= 1]_vars

\* a second occurrence of a URL was skipped, the URL having been fetched
\* once, and the fetch of another dequeued URL failed
C8_Witness ==
  /\ \E i \in DOMAIN tasks : tasks[i].st = "skipped" /\ fetchCount[tasks[i].url] = 1
  /\ \E u \in failed : u \in dequeued /\ u \notin Range(queue)

WrittenByCrawlAll(f) == f.kind = "text" /\ f.by \in {"periodic", "final"}

\* C9: when the index fetch of the seeding fails, crawlAll fails: the loop
\* is not entered, nothing is returned, and crawlAll writes no checkpoint.
C9_IndexFailureFatal ==
  [][SeedFailed =>
       /\ pc' = "failed"
       /\ tasks' = <<>> /\ dequeued' = {} /\ visited' = visited
       /\ output' = None
       /\ ~WrittenByCrawlAll(disk')
       /\ \A k \in DOMAIN writes' : writes'[k].by = "exit"]_vars

\* crawlAll failed in the seeding
C9_Witness == pc = "failed" /\ tasks = <<>> /\ output = None

\* C10 (as claimed): the error of a failed fetch of a dequeued page never
\* escapes processPage.
C10_FailureNeverEscapes ==
  \A i \in DOMAIN tasks : tasks[i].st # "rejected"

\* C10 (amended): a failed fetch of a dequeued URL other than the index URL
\* resolves its processPage, leaves the URL in visited, leaves entries,
\* queue and the other tasks alone, and crawlAll goes on; only the index
\* URL makes processPage reject.
C10_NonIndexFailureRecoverable ==
  [][\A i \in DOMAIN tasks :
       (tasks[i].st = "fetching" /\ i \in DOMAIN tasks'
          /\ tasks'[i].st \in {"null", "rejected"}) =>
         IF tasks[i].url # IndexUrl
         THEN /\ tasks' = [tasks EXCEPT ![i].st = "null"]
              /\ tasks[i].url \in visited'
              /\ visited' = visited /\ entries' = entries /\ queue' = queue
              /\ pc' = pc
         ELSE tasks'[i].st = "rejected" /\ pc' = "failed"]_vars

\* a fetch of a page failed, the batch was joined and the next one started
C10_Witness ==
  /\ failed # {}
  /\ failed \subseteq visited
  /\ \E i \in DOMAIN tasks : tasks[i].st = "fetching" /\ tasks[i].url \notin failed

RECURSIVE Distance(_, _, _, _)
\* the number of links from the URLs `frontier` (at distance d) to u, -1
\* when u cannot be reached
Distance(frontier, seen, d, u) ==
  IF u \in frontier THEN d
  ELSE LET next == UNION {Range(ExtractLinks(v)) : v \in frontier}
                     \ (seen \cup frontier)
       IN IF next = {} THEN -1
          ELSE Distance(next, seen \cup frontier, d + 1, u)

\* the link distance of u, the links of the index page being at depth 0
LinkDepth(u) == Distance(Range(ExtractLinks(IndexUrl)), {}, 0, u)

\* C11 (as claimed): no page whose link distance from the crawl root exceeds
\* maxDepth is ever marked visited (or fetched).
C11_DepthLimited ==
  options.maxDepth # None =>
    \A u \in visited : LinkDepth(u) <= options.maxDepth[1]

\* C11 (amended): the depth test is made with depth 0 for every dequeued
\* URL: with maxDepth unset or >= 0 every URL of a batch is visited after
\* the dispatch, whatever its link distance; with maxDepth < 0 no page is
\* ever fetched or marked visited.
C11_DepthZeroForAll ==
  [][/\ (options.maxDepth # None /\ options.maxDepth[1] < 0) =>
          visited' = {} /\ fetchCount' = fetchCount
     /\ ((options.maxDepth = None \/ options.maxDepth[1] >= 0)
           /\ Len(queue') < Len(queue)) =>
          Range(TaskUrls(tasks')) \subseteq visited']_vars

\* with maxDepth 0 a page found one link beyond the seeds is visited
C11_Witness ==
  /\ options.maxDepth = Some(0)
  /\ \E u \in visited : LinkDepth(u) > 0

\* the id of entry i of es with its last segment dropped
DroppedLast(es, i) == [k \in 1..(Len(es[i].id) - 1) |-> es[i].id[k]]

\* entry i of es has a dotted id whose parent id is the id of an entry
HasParentIn(es, i) ==
  Len(es[i].id) > 1 /\ \E j \in DOMAIN es : es[j].id = DroppedLast(es, i)

RECURSIVE ChildIdsFrom(_, _, _)
\* the ids of the entries from index i on whose parent id is p, in order
ChildIdsFrom(es, p, i) ==
  IF i > Len(es) THEN <<>>
  ELSE (IF Len(es[i].id) > 1 /\ DroppedLast(es, i) = p
        THEN <<es[i].id>> ELSE <<>>) \o ChildIdsFrom(es, p, i + 1)

\* what one pass of the Hierarchy Builder makes of entries without links
Linked(es) ==
  [i \in DOMAIN es |->
     [es[i] EXCEPT
        !.parent = IF HasParentIn(es, i) THEN Some(DroppedLast(es, i)) ELSE None,
        !.children = IF \A j \in 1..(i - 1) : es[j].id # es[i].id
                     THEN ChildIdsFrom(es, es[i].id, 1) ELSE <<>>]]

Unlinked(es) == \A i \in DOMAIN es : es[i].parent = None /\ es[i].children = <<>>
FinalWrites(ws) == {k \in DOMAIN ws : ws[k].by = "final"}

\* C12: when the loop ends with the queue drained and no stop flag, the
\* Hierarchy Builder runs once over all entries (none linked before), then
\* the one final checkpoint is written with the linked entries, and only
\* after that write crawlAll returns them.
C12_HierarchyThenFinalCheckpoint ==
  [][/\ (pc = "loopTop" /\ Len(queue) = 0 /\ ~isExiting) =>
          /\ Unlinked(entries)
          /\ entries' = Linked(entries)
          /\ FinalWrites(writes) = {} /\ ~(disk.kind = "text" /\ disk.by = "final")
          /\ writes' = Append(writes,
                 [by |-> "final",
                  text |-> CheckpointText("final", visited, queue, entries')])
          /\ pc' = "finalWrite" /\ output' = None
     /\ FinalWrites(writes') # FinalWrites(writes) /\ pc # "finalWrite" =>
          pc = "loopTop" /\ Len(queue) = 0 /\ ~isExiting
     /\ (pc = "finalWrite" /\ pc' = "returned") =>
          /\ disk' = CheckpointText("final", visited, queue, entries)
          /\ entries' = entries
          /\ output' = Some(entries)]_vars

\* crawlAll returned after a drained queue: the final checkpoint on disk
\* holds the returned entries, with a child linked to its parent
C12_Witness ==
  /\ pc = "returned"
  /\ disk.kind = "text" /\ disk.by = "final"
  /\ output = Some(disk.entries)
  /\ \E i \in DOMAIN disk.entries : Len(disk.entries[i].children) = 2

\* C13: in the final output of a crawl no two entries share an id.
C13_UniqueIds ==
  output # None =>
    \A i, j \in DOMAIN output[1] : i # j => output[1][i].id # output[1][j].id

(***************************************************************************)
(* The extraction engine and the Hierarchy Builder checked alone: a call   *)
(* is drawn from the bounded inputs below and the function is applied.     *)
(***************************************************************************)
MaxEntries == 4

EntryIds == {<<"m">>, <<"m", "C">>, <<"m", "C", "f">>, <<"x">>}

EntrySeqs == UNION {[1..n -> {Entry(id, "a") : id \in EntryIds}] : n \in 0..MaxEntries}

TypeCalls == [kind : {"determineType"}, matching : SUBSET PatternNames]

\* no defaultSelector finds no element, and no element has no text
ParamCalls ==
  {c \in [kind : {"extractParameters"}, name : {"", "p"},
          defaultSelector : BOOLEAN, defaultMatches : BOOLEAN,
          defaultText : {"", "1"},
          defaultPattern : {"unset", "nomatch", "empty", "v"},
          optionalPattern : {"unset", "nomatch", "match"}] :
     /\ ~c.defaultSelector => ~c.defaultMatches
     /\ ~c.defaultMatches => c.defaultText = ""}

HierarchyCalls == [kind : {"establishHierarchy"}, entries : EntrySeqs]

InitExtract ==
  /\ call \in TypeCalls \cup ParamCalls \cup HierarchyCalls
  /\ result = None
  /\ recalls = 0
  /\ site = SiteEmpty
  /\ options = [maxConcurrent |-> None, maxDepth |-> None, delay |-> None,
                resumeFrom |-> None]
  /\ pc = "new"
  /\ visited = {} /\ queue = <<>> /\ entries = <<>>
  /\ isExiting = FALSE
  /\ tasks = <<>> /\ writes = <<>>
  /\ disk = Absent
  /\ output = None
  /\ signals = 0
  /\ dequeued = {}
  /\ fetchCount = [u \in Urls |-> 0]
  /\ failed = {}

DetermineTypeCall ==
  /\ call.kind = "determineType" /\ result = None
  /\ result' = Some(ExtractEntryType(call.matching))
  /\ UNCHANGED <<call, crawlVars>>

ExtractParametersCall ==
  /\ call.kind = "extractParameters" /\ result = None
  /\ result' = Some(ExtractParameter(call))
  /\ UNCHANGED <<call, crawlVars>>

EstablishHierarchyCall ==
  /\ call.kind = "establishHierarchy" /\ result = None
  /\ result' = Some(EstablishHierarchy(call.entries))
  /\ UNCHANGED <<call, crawlVars>>

NextExtract ==
  \/ DetermineTypeCall
  \/ ExtractParametersCall
  \/ EstablishHierarchyCall

SpecExtract == InitExtract /\ [][NextExtract]_vars

IdsOf(es) == [i \in DOMAIN es |-> es[i].id]

\* C14: every entry whose dotted id, last segment dropped, is the id of an
\* entry of the set gets that id as parent, and its own id is appended to
\* the children of that entry in processing order; every other entry keeps
\* parent unset.  For the ids m, m.C, m.C.f, x in any order: m.C.f has parent
\* m.C, m.C has parent m, x and m have none, and m's children are [m.C].
C14_HierarchyBuilder ==
  (call.kind = "establishHierarchy" /\ result # None) =>
    LET in == call.entries
        out == result[1]
    IN /\ DOMAIN out = DOMAIN in
       /\ \A i \in DOMAIN in :
            /\ out[i].id = in[i].id /\ out[i].url = in[i].url
            /\ (Len(in[i].id) > 1
                  /\ \E j \in DOMAIN in : in[j].id = DroppedLast(in, i))
                 => out[i].parent = Some(DroppedLast(in, i))
            /\ ~(Len(in[i].id) > 1
                  /\ \E j \in DOMAIN in : in[j].id = DroppedLast(in, i))
                 => out[i].parent = None
            /\ out[i].children =
                 IF \A j \in 1..(i - 1) : in[j].id # in[i].id
                 THEN ChildIdsFrom(in, in[i].id, 1) ELSE <<>>
       /\ (Len(in) = 4 /\ Range(IdsOf(in)) = EntryIds) =>
            \A i \in DOMAIN in :
              /\ in[i].id = <<"m", "C", "f">> => out[i].parent = Some(<<"m", "C">>)
              /\ in[i].id = <<"m", "C">> => out[i].parent = Some(<<"m">>)
              /\ in[i].id = <<"x">> => out[i].parent = None /\ out[i].children = <<>>
              /\ in[i].id = <<"m">> =>
                   out[i].parent = None /\ out[i].children = << <<"m", "C">> >>

C14_Witness ==
  /\ call.kind = "establishHierarchy" /\ result # None
  /\ IdsOf(call.entries) = << <<"m", "C", "f">>, <<"x">>, <<"m", "C">>, <<"m">> >>
  /\ result[1][1].parent = Some(<<"m", "C">>)
  /\ result[1][4].children = << <<"m", "C">> >>

Priority == <<"isClass", "isMethod", "isFunction", "isModule", "isProperty">>
TypeNamed == <<"class", "method", "function", "module", "property">>

\* C15: the type is that of the first of isClass, isMethod, isFunction,
\* isModule, isProperty that matches, for every combination of matching
\* patterns (class when both isClass and isMethod match); when none matches
\* the element yields no entry.
C15_FirstMatchWins ==
  (call.kind = "determineType" /\ result # None) =>
    /\ (call.matching = {}) <=> ~result[1].entry
    /\ call.matching # {} =>
         \E k \in DOMAIN Priority :
           /\ Priority[k] \in call.matching
           /\ \A j \in 1..(k - 1) : Priority[j] \notin call.matching
           /\ result[1].type = Some(TypeNamed[k])
    /\ {"isClass", "isMethod"} \subseteq call.matching =>
         result[1].type = Some("class")

C15_Witness ==
  /\ call.kind = "determineType" /\ result # None
  /\ call.matching = {"isClass", "isMethod", "isProperty"}
  /\ result[1] = [entry |-> TRUE, type |-> Some("class")]

\* C16 as stated: whenever defaultSelector matches an element inside the
\* parameter element, the stored parameter has optional = true, whatever the
\* element's text, defaultPattern and optionalPattern are.
C16_OptionalWheneverSelectorMatches ==
  (call.kind = "extractParameters" /\ result # None /\ result[1] # None) =>
    (call.defaultSelector /\ call.defaultMatches => result[1][1].optional)

\* C16 amended: whenever defaultSelector matches an element whose trimmed
\* text is not empty, the stored parameter has optional = true, whatever
\* defaultPattern and optionalPattern are or match; with no such text,
\* optional is true exactly when a configured optionalPattern matches the
\* name: the pattern turns false into true and never true into false.
C16_OptionalWhenDefaultFound ==
  (call.kind = "extractParameters" /\ result # None /\ result[1] # None) =>
    LET found == call.defaultSelector /\ call.defaultMatches /\ call.defaultText # ""
    IN /\ found => result[1][1].optional /\ result[1][1].default # None
       /\ ~found => /\ result[1][1].default = None
                    /\ result[1][1].optional <=> call.optionalPattern = "match"

C16_Witness ==
  /\ call.kind = "extractParameters" /\ result # None /\ result[1] # None
  /\ call.defaultMatches /\ call.defaultText # ""
  /\ call.defaultPattern = "empty" /\ call.optionalPattern = "nomatch"
  /\ result[1][1].optional

\* C17 as stated: while any processPage of a batch is in flight, neither
\* visited nor queue changes.
C17_FrozenDuringBatch ==
  [][InFlight # {} => visited' = visited /\ queue' = queue]_vars

\* C17 amended: while any processPage of a batch is in flight, visited does
\* not change and nothing is removed from the queue; the queue changes only
\* when a processPage of the batch completes its fetch, which appends to the
\* tail of the queue the links of its page that are not in visited.
C17_QueueOnlyGrowsDuringBatch ==
  [][InFlight # {} =>
       /\ visited' = visited
       /\ Len(queue') >= Len(queue) /\ SubSeq(queue', 1, Len(queue)) = queue
       /\ queue' # queue =>
            \E i \in InFlight :
              /\ tasks' = [tasks EXCEPT ![i].st = "ok"]
              /\ LET added == SubSeq(queue', Len(queue) + 1, Len(queue')) IN
                 /\ Range(added) = Range(ExtractLinks(tasks[i].url)) \ visited
                 /\ Len(added) = Len(FilterSeq(ExtractLinks(tasks[i].url), {}))
                                   - Len(FilterSeq(ExtractLinks(tasks[i].url),
                                                    Urls \ visited))]_vars

\* one page of the batch has appended its links while another is being fetched
C17_Witness ==
  /\ pc = "batchWait"
  /\ \E i, j \in DOMAIN tasks :
       /\ tasks[i].st = "ok" /\ tasks[j].st = "fetching"
       /\ \A k \in DOMAIN tasks \ {i} : tasks[k].st # "ok"
       /\ Range(ExtractLinks(tasks[i].url)) \ visited # {}
       /\ Len(queue) >= Len(FilterSeq(ExtractLinks(tasks[i].url), visited))
       /\ SubSeq(queue,
                 Len(queue) - Len(FilterSeq(ExtractLinks(tasks[i].url), visited)) + 1,
                 Len(queue)) = FilterSeq(ExtractLinks(tasks[i].url), visited)

\* task i of the batch ts, started on the visited set vis, returns early:
\* its URL was visited before the batch or marked by an earlier task of the
\* batch, or the depth 0 it is called with exceeds maxDepth
ReturnsEarly(ts, i, vis) ==
  \/ ts[i].url \in vis
  \/ \E j \in 1..(i - 1) : ts[j].url = ts[i].url /\ ts[j].st = "fetching"
  \/ options.maxDepth # None /\ 0 > options.maxDepth[1]

FetchingUrls(ts) == {ts[i].url : i \in {k \in DOMAIN ts : ts[k].st = "fetching"}}

\* C19: a processPage call on a URL already in visited, or whose depth
\* exceeds maxDepth, starts no fetch and changes neither visited, queue nor
\* entries, then and later; every other call has added its URL to visited in
\* the step that starts its fetch, so that a second call on the same URL in
\* the same batch already finds it there.
C19_SkipIsNoOp ==
  [][/\ (pc = "loopTop" /\ pc' = "batchWait") =>
          /\ \A i \in DOMAIN tasks' :
               /\ tasks'[i].st \in {"skipped", "fetching"}
               /\ tasks'[i].st = "skipped" <=> ReturnsEarly(tasks', i, visited)
          /\ visited' = visited \cup FetchingUrls(tasks')
          /\ \A u \in Urls : fetchCount'[u] # fetchCount[u] => u \in FetchingUrls(tasks')
          /\ queue = TaskUrls(tasks') \o queue'
          /\ entries' = entries
     /\ (pc = "batchWait" /\ pc' = "batchWait") =>
          /\ \A i \in DOMAIN tasks : tasks[i].st = "skipped" => tasks'[i] = tasks[i]
          /\ (queue' # queue \/ entries' # entries) =>
               \E i \in InFlight : tasks' = [tasks EXCEPT ![i].st = "ok"]
          /\ visited' = visited /\ fetchCount' = fetchCount]_vars

\* a batch holding the same URL twice: the first call fetches, the second
\* finds the URL visited and returns
C19_Witness ==
  /\ pc = "batchWait"
  /\ \E i, j \in DOMAIN tasks :
       /\ i < j /\ tasks[i].url = tasks[j].url
       /\ tasks[i].st = "fetching" /\ tasks[j].st = "skipped"
       /\ fetchCount[tasks[i].url] = 1

\* C20: once a shutdown signal has set the stop flag no further URL is taken
\* from the queue, and the process does not end before crawlAll has returned
\* the entries collected so far to its caller.
C20_CallerReceivesPartialResult ==
  [][/\ isExiting => dequeued' = dequeued /\ Len(queue') >= Len(queue)
     /\ pc' = "exited" => output' # None]_vars

(***************************************************************************)
(* The crawl with the fetches of every batch completing in batch order, on *)
(* this site with the pages in `failed` unavailable.                       *)
(***************************************************************************)
RECURSIVE CompleteInOrder(_, _, _, _, _)
\* the processPage calls ts[i..] resume one after the other
CompleteInOrder(ts, i, vis, q, es) ==
  IF i > Len(ts) THEN [queue |-> q, entries |-> es]
  ELSE IF ts[i].st = "fetching" /\ ts[i].url \notin failed
       THEN CompleteInOrder(ts, i + 1, vis,
                            q \o FilterSeq(ExtractLinks(ts[i].url), vis),
                            es \o ExtractEntries(ts[i].url))
       ELSE CompleteInOrder(ts, i + 1, vis, q, es)

RECURSIVE RunInOrder(_, _, _)
\* the while loop of crawlAll, then establishHierarchy
RunInOrder(vis, q, es) ==
  IF q = <<>> THEN [visited |-> vis, entries |-> EstablishHierarchy(es)]
  ELSE LET started == StartBatch(SpliceTaken(q, BatchLimit), vis, <<>>, fetchCount)
           after == CompleteInOrder(started.tasks, 1, started.visited,
                                    SpliceLeft(q, BatchLimit), es)
       IN RunInOrder(started.visited, after.queue, after.entries)

InOrder == RunInOrder({}, ExtractLinks(IndexUrl), <<>>)

\* entries compared by id, url and parent
ParentKeys(es) == {<<es[i].id, es[i].url, es[i].parent>> : i \in DOMAIN es}

\* C18 as stated: a crawl that completes normally ends with the visited set
\* and the set of entries, parent and children included, of the crawl whose
\* fetches complete in batch order, whatever its own completion order was.
C18_CompletionOrderIrrelevant ==
  pc = "finalWrite" =>
    /\ visited = InOrder.visited
    /\ Range(entries) = Range(InOrder.entries)

\* C18 amended: a crawl that completes normally ends with the visited set
\* and the set of entries, compared by id, url and parent, of the crawl whose
\* fetches complete in batch order, whatever its own completion order was;
\* only the children lists may differ.
C18_SameEntriesUpToChildren ==
  pc = "finalWrite" =>
    /\ visited = InOrder.visited
    /\ ParentKeys(entries) = ParentKeys(InOrder.entries)
    /\ Len(entries) = Len(InOrder.entries)

\* a crawl completed with fetches out of batch order, and an entry's children
\* come in another order than in the in-order crawl
C18_Witness ==
  /\ pc = "finalWrite"
  /\ IdsOf(entries) # IdsOf(InOrder.entries)
  /\ \E i \in DOMAIN entries, j \in DOMAIN InOrder.entries :
       /\ entries[i].id = InOrder.entries[j].id
       /\ Len(entries[i].children) = 2
       /\ entries[i].children # InOrder.entries[j].children
       /\ Range(entries[i].children) = Range(InOrder.entries[j].children)

(***************************************************************************)
(* The crawl with no stop signal, in which every fetch, checkpoint write   *)
(* and timer eventually completes and the event loop runs what is ready.   *)
(***************************************************************************)
NextQuiet ==
  \/ Construct
  \/ CrawlAllStart
  \/ SeedFetched
  \/ SeedFailed
  \/ Dispatch
  \/ \E i \in DOMAIN tasks : TaskFetched(i)
  \/ \E i \in DOMAIN tasks : TaskFailed(i)
  \/ BatchJoined
  \/ PeriodicCheckpoint
  \/ NoCheckpoint
  \/ \E k \in DOMAIN writes : PeriodicWritten(k)
  \/ DelayElapsed
  \/ Finish
  \/ \E k \in DOMAIN writes : FinalWritten(k)
  \/ MainDone

\* the while condition is false and the stop flag is not set: the only step
\* crawlAll can take is establishHierarchy and the final save (Finish)
AtLoopEnd == pc = "loopTop" /\ Len(queue) = 0 /\ ~isExiting

\* Every step that can be taken eventually is.  The fairness on Finish is
\* written on its guard and its move of pc alone, which is the same condition
\* since Finish is the only step NextQuiet allows where AtLoopEnd holds.
SpecQuiet ==
  /\ Init /\ [][NextQuiet]_vars
  /\ WF_vars(~AtLoopEnd /\ NextQuiet)
  /\ WF_pc(AtLoopEnd /\ pc' = "finalWrite")

\* C21 as stated: with every fetch resolving and no stop signal, crawlAll
\* eventually drains the queue and returns.
C21_DrainsAndReturns ==
  (pc = "ready") ~> (pc = "returned" /\ queue = <<>> /\ output # None)

\* C21 amended: with every fetch resolving and no stop signal, crawlAll
\* eventually ends: it drains the queue and returns, or it rejects because a
\* fetch of the index page failed.
C21_Terminates ==
  (pc = "ready") ~> \/ pc = "returned" /\ queue = <<>> /\ output # None
                    \/ pc = "failed" /\ (IndexUrl \in failed \/ dequeued = {})

\* a crawl over the cycle of links, index page included, has returned
C21_Witness ==
  /\ site = SiteCycle
  /\ pc = "returned" /\ queue = <<>> /\ output # None
  /\ visited = Urls

\* the pages whose fetch in processPage returned a document
FetchedPages == visited \ failed

\* the URLs the index page and the fetched pages link to
LinkedUrls ==
  Range(ExtractLinks(IndexUrl)) \cup UNION {Range(ExtractLinks(v)) : v \in FetchedPages}

\* the ids of the entries of es that come from page v, in order
IdsFrom(es, v) ==
  LET FromPage(e) == e.url = v IN IdsOf(SelectSeq(es, FromPage))

\* every linked URL is visited, and the entries are those of the fetched
\* pages, each once
CompleteCrawl ==
  /\ LinkedUrls \subseteq visited
  /\ \A v \in Urls :
       IdsFrom(entries, v) = IF v \in FetchedPages THEN IdsOf(ExtractEntries(v))
                             ELSE <<>>

\* C22 as stated: when crawlAll has drained the queue and is about to return,
\* every URL linked from the index page or from a fetched page is in visited
\* and every entry of a fetched page is in the entries exactly once.
C22_CompleteAtReturn == pc = "finalWrite" => CompleteCrawl

\* C22 amended: the same when maxDepth is unset or not negative; with a
\* negative maxDepth crawlAll drains the queue and returns with nothing
\* visited and no entry.
C22_CompleteUnlessNegativeDepth ==
  pc = "finalWrite" =>
    IF options.maxDepth # None /\ options.maxDepth[1] < 0
    THEN visited = {} /\ entries = <<>>
    ELSE CompleteCrawl

\* a crawl in which one page was unavailable is complete for the others
C22_Witness ==
  /\ pc = "finalWrite"
  /\ site = SiteDiamond /\ failed = {"a"}
  /\ visited = Pages
  /\ Len(entries) = Len(ExtractEntries("b")) + Len(ExtractEntries("c"))

(***************************************************************************)
(* A crawler used again: crawlAll is a public method and can be called on  *)
(* a crawler whose earlier crawlAll has returned.                          *)
(***************************************************************************)
MaxRecalls == 1

\* crawlAll() called again after it returned, up to the first await
CrawlAllAgain ==
  /\ pc = "returned"
  /\ recalls < MaxRecalls
  /\ recalls' = recalls + 1
  /\ pc' = IF Len(queue) = 0 THEN "seeding" ELSE "loopTop"
  /\ UNCHANGED <<call, result, site, options, visited, queue, entries, isExiting,
                 tasks, writes, disk, output, signals, dequeued, fetchCount, failed>>

NextReuse ==
  \/ Construct
  \/ CrawlAllStart
  \/ CrawlAllAgain
  \/ SeedFetched
  \/ SeedFailed
  \/ Dispatch
  \/ \E i \in DOMAIN tasks : TaskFetched(i)
  \/ \E i \in DOMAIN tasks : TaskFailed(i)
  \/ BatchJoined
  \/ PeriodicCheckpoint
  \/ NoCheckpoint
  \/ \E k \in DOMAIN writes : PeriodicWritten(k)
  \/ DelayElapsed
  \/ ReturnInterrupted
  \/ Finish
  \/ \E k \in DOMAIN writes : FinalWritten(k)
  \/ MainDone
  \/ Signal
  \/ \E k \in DOMAIN writes : ExitWritten(k)

SpecReuse == Init /\ [][NextReuse]_vars

\* the entries of es that are children of entry i: their dotted id, last
\* segment dropped, is the id of entry i
ChildEntries(es, i, c) ==
  {j \in DOMAIN es : es[j].id = c /\ Len(c) > 1 /\ DroppedLast(es, j) = es[i].id}

\* C23: after any sequence of crawls, checkpoints and completed crawlAll
\* calls, the children list of an entry holds the id of each of its child
\* entries once: no id more often than there are child entries with that id.
C23_ChildrenOnce ==
  \A i \in DOMAIN entries :
    \A k \in DOMAIN entries[i].children :
      Occurrences(entries[i].children, entries[i].children[k])
        <= Cardinality(ChildEntries(entries, i, entries[i].children[k]))

====
